---- MODULE Spec2Model ----
(***************************************************************************)
(* Model of src/ripple/rpc/handlers/LedgerEntry.cpp: the two ledger_entry  *)
(* handlers doLedgerEntry (JSON) and doLedgerEntryGrpc (gRPC).             *)
(*                                                                         *)
(* Strings are sequences of one-character strings, so that hex parsing and *)
(* hex formatting are computed digit by digit.  The 256-bit key is scaled  *)
(* to KeyBytes bytes (2*KeyBytes hex characters).                          *)
(*                                                                         *)
(* Input domain: Json::Value::asString is only applied to null, string,    *)
(* integer and boolean values; arrays and objects handed to asString are   *)
(* outside the domain (its behaviour there is not defined in this file).   *)
(***************************************************************************)
EXTENDS Integers, Sequences, FiniteSets, TLC

\* ------------------------------------------------------------------ bounds
KeyBytes == 1
HashBuckets == 4

KeyHexLen == 2 * KeyBytes
RECURSIVE Pow(_, _)
Pow(b, e) == IF e = 0 THEN 1 ELSE b * Pow(b, e - 1)
KeySpace == Pow(16, KeyHexLen)
MaxKey == KeySpace - 1

\* ------------------------------------------------------------- hex codecs
HexUpper == <<"0","1","2","3","4","5","6","7","8","9","A","B","C","D","E","F">>
HexLower == <<"0","1","2","3","4","5","6","7","8","9","a","b","c","d","e","f">>

IsHexChar(c) == \E i \in 1..16 : HexUpper[i] = c \/ HexLower[i] = c
HexCharVal(c) == (CHOOSE i \in 1..16 : HexUpper[i] = c \/ HexLower[i] = c) - 1

RECURSIVE HexValue(_)
HexValue(s) ==
    IF s = <<>> THEN 0
    ELSE HexValue(SubSeq(s, 1, Len(s) - 1)) * 16 + HexCharVal(s[Len(s)])

\* base_uint::parseHex: exactly 2*bytes hex characters, else failure.
parseHex(s) ==
    IF Len(s) = KeyHexLen /\ \A i \in 1..Len(s) : IsHexChar(s[i])
    THEN [ok |-> TRUE, val |-> HexValue(s)]
    ELSE [ok |-> FALSE, val |-> 0]

RECURSIVE ToHex(_, _)
ToHex(n, len) ==
    IF len = 0 THEN <<>>
    ELSE Append(ToHex(n \div 16, len - 1), HexUpper[(n % 16) + 1])

\* to_string(uint256): upper-case hex of the full width.
to_string(k) == ToHex(k, KeyHexLen)

\* strUnHex: hex characters decode to bytes; with an odd number of them the
\* first character is a byte of its own.
RECURSIVE UnHexBytes(_)
UnHexBytes(s) ==
    IF s = <<>> THEN <<>>
    ELSE IF Len(s) % 2 = 1
    THEN <<HexCharVal(s[1])>> \o UnHexBytes(Tail(s))
    ELSE <<HexCharVal(s[1]) * 16 + HexCharVal(s[2])>> \o UnHexBytes(SubSeq(s, 3, Len(s)))

strUnHex(s) ==
    IF \A i \in 1..Len(s) : IsHexChar(s[i])
    THEN [ok |-> TRUE, bytes |-> UnHexBytes(s)]
    ELSE [ok |-> FALSE, bytes |-> <<>>]

RECURSIVE strHex(_)
strHex(bytes) ==
    IF bytes = <<>> THEN <<>>
    ELSE ToHex(bytes[1], 2) \o strHex(Tail(bytes))

RECURSIVE BytesValue(_)
BytesValue(b) ==
    IF b = <<>> THEN 0
    ELSE BytesValue(SubSeq(b, 1, Len(b) - 1)) * 256 + b[Len(b)]

RECURSIVE ToBytes(_, _)
ToBytes(n, len) ==
    IF len = 0 THEN <<>>
    ELSE Append(ToBytes(n \div 256, len - 1), n % 256)

\* uint256::fromVoidChecked: the byte string must have the key's width.
fromVoidChecked(b) ==
    IF Len(b) = KeyBytes THEN [ok |-> TRUE, val |-> BytesValue(b)]
    ELSE [ok |-> FALSE, val |-> 0]

\* ------------------------------------------------------------ JSON values
\* Atom: [t, s, n]; Leaf: atom plus array elements a; Value: leaf plus
\* object members m, a function on the names of the members present.

Atom(t, s, n) == [t |-> t, s |-> s, n |-> n]
Leaf(t, s, n, a) == [t |-> t, s |-> s, n |-> n, a |-> a]
AbsentLeaf == Leaf("absent", <<>>, 0, <<>>)
NoMembers == <<>>
Value(t, s, n, a, m) == [t |-> t, s |-> s, n |-> n, a |-> a, m |-> m]

AbsentValue == Value("absent", <<>>, 0, <<>>, NoMembers)
NullValue == Value("null", <<>>, 0, <<>>, NoMembers)
StrValue(s) == Value("str", s, 0, <<>>, NoMembers)
IntValue(n) == Value("int", <<>>, n, <<>>, NoMembers)
BoolValue(b) == Value("bool", <<>>, IF b THEN 1 ELSE 0, <<>>, NoMembers)
ArrValue(a) == Value("arr", <<>>, 0, a, NoMembers)
ObjValue(m) == Value("obj", <<>>, 0, <<>>, m)

StrLeaf(s) == Leaf("str", s, 0, <<>>)
IntLeaf(n) == Leaf("int", <<>>, n, <<>>)
ArrLeaf(a) == Leaf("arr", <<>>, 0, a)
StrAtom(s) == Atom("str", s, 0)
IntAtom(n) == Atom("int", <<>>, n)

\* Objects with up to three members; an AbsentLeaf member is not a member.
Obj3(f1, l1, f2, l2, f3, l3) ==
    ObjValue([f \in {g \in {f1, f2, f3} :
                        (IF g = f1 THEN l1 ELSE IF g = f2 THEN l2 ELSE l3) # AbsentLeaf}
                 |-> IF f = f1 THEN l1 ELSE IF f = f2 THEN l2 ELSE l3])
Obj2(f1, l1, f2, l2) == Obj3(f1, l1, f2, l2, f2, l2)
Obj1(f1, l1) == Obj3(f1, l1, f1, l1, f1, l1)
EmptyObj == ObjValue(NoMembers)

isNull(v) == v.t = "null"
isString(v) == v.t = "str"
isObject(v) == v.t = "obj"
isArray(v) == v.t = "arr"
isIntegral(v) == v.t \in {"int", "bool"}
isMember(v, f) == f \in DOMAIN v.m
\* context.params.isMember(f): params is a function on the fields present.
has(p, f) == f \in DOMAIN p
asUInt(v) == v.n
asBool(v) ==
    CASE v.t = "bool" -> v.n = 1
      [] v.t = "int" -> v.n # 0
      [] v.t = "str" -> v.s # <<>>
      [] OTHER -> FALSE
asString(v) ==
    CASE v.t = "str" -> v.s
      [] v.t = "int" -> <<HexUpper[v.n + 1]>>
      [] v.t = "bool" -> IF v.n = 1 THEN <<"t","r","u","e">> ELSE <<"f","a","l","s","e">>
      [] OTHER -> <<>>

\* ------------------------------------------------- external decoders, keys
\* parseBase58<AccountID>: the addresses "rA" and "rB" decode to accounts 1
\* and 2, "rr" decodes to the zero account, anything else fails.
parseBase58(s) ==
    CASE s = <<"r","A">> -> [ok |-> TRUE, id |-> 1]
      [] s = <<"r","B">> -> [ok |-> TRUE, id |-> 2]
      [] s = <<"r","r">> -> [ok |-> TRUE, id |-> 0]
      [] OTHER -> [ok |-> FALSE, id |-> 0]

\* to_currency: the empty string is the native currency, "USD" a 3-letter
\* code, anything else fails.
to_currency(s) ==
    CASE s = <<>> -> [ok |-> TRUE, cur |-> 0]
      [] s = <<"U","S","D">> -> [ok |-> TRUE, cur |-> 1]
      [] OTHER -> [ok |-> FALSE, cur |-> 0]

\* publicKeyType: one prefix byte (0xED, 0x02, 0x03) plus a key-width body.
publicKeyType(bytes) ==
    Len(bytes) = KeyBytes + 1 /\ bytes[1] \in {237, 2, 3}

\* Key derivation (sha512Half over a name space and the identifiers): a
\* deterministic function into the nonzero keys.
Keylet(space, a, b) == 1 + ((space + 3 * a + 5 * b) % HashBuckets)

keylet_account(id) == Keylet(1, id, 0)
keylet_depositPreauth(owner, authorized) == Keylet(2, owner, authorized)
keylet_ownerDir(id) == Keylet(3, id, 0)
keylet_page(root, index) == IF index = 0 THEN root ELSE Keylet(4, root, index)
keylet_escrow(id, seq) == Keylet(5, id, seq)
keylet_emittedTxn(id) == Keylet(6, id, 0)
keylet_import_vlseq(pk) == Keylet(7, BytesValue(pk), 0)
keylet_offer(id, seq) == Keylet(8, id, seq)
keylet_uritoken(id, uri) == Keylet(9, id, Len(uri))
keylet_line(id1, id2, cur) ==
    Keylet(10, IF id1 < id2 THEN id1 ELSE id2, (IF id1 < id2 THEN id2 ELSE id1) + 7 * cur)
getTicketIndex(id, seq) == Keylet(11, id, seq)
keylet_hook(id) == Keylet(12, id, 0)
keylet_hookDefinition(hash) == Keylet(13, hash, 0)
keylet_hookState(id, key, ns) == Keylet(14, id, key + 3 * ns)

\* ------------------------------------------------------- ledger and store
ltANY == "ltANY"
LedgerEntryTypes ==
    <<"ltACCOUNT_ROOT", "ltCHECK", "ltDEPOSIT_PREAUTH", "ltDIR_NODE",
      "ltESCROW", "ltEMITTED_TXN", "ltIMPORT_VLSEQ", "ltOFFER", "ltPAYCHAN",
      "ltURI_TOKEN", "ltRIPPLE_STATE", "ltTICKET", "ltHOOK",
      "ltHOOK_DEFINITION", "ltHOOK_STATE", "ltNFTOKEN_PAGE">>
StoredTypes == {LedgerEntryTypes[i] : i \in 1..Len(LedgerEntryTypes)}
TypeCode(t) == CHOOSE i \in 1..Len(LedgerEntryTypes) : LedgerEntryTypes[i] = t

\* A stored ledger entry; NoSLE is the null pointer ReadView::read returns
\* when nothing is stored at the key.
SLE(k, t) == [key |-> k, type |-> t, data |-> (7 * k + TypeCode(t)) % 256]
NoSLE == [key |-> 0, type |-> "none", data |-> 0]

\* ReadView::read(keylet::unchecked(key)) on a snapshot (a set of entries
\* with distinct keys).
read(snap, k) ==
    IF \E o \in snap : o.key = k THEN CHOOSE o \in snap : o.key = k ELSE NoSLE

\* Serializer / STObject::add and getJson.
Serialize(sle) == <<TypeCode(sle.type), sle.data>>
getJson(sle) == [LedgerEntryType |-> sle.type, data |-> sle.data]
NoNode == [LedgerEntryType |-> "none", data |-> 0]

\* ---------------------------------------------- classification, per shape
\* Each branch returns the locals of doLedgerEntry after the branch has run:
\* uNodeIndex, the error it put in jvResult ("" when none), expectedType,
\* and whether the call was aborted (undefined behaviour only).
NoError == ""
Res(k, e, t) == [uNodeIndex |-> k, error |-> e, expectedType |-> t, crashed |-> FALSE]
Crash(t) == [uNodeIndex |-> 0, error |-> NoError, expectedType |-> t, crashed |-> TRUE]

\* "if (!uNodeIndex.parseHex(s)) { uNodeIndex = zero; error = malformedRequest }"
HexOrMalformed(s, t) ==
    IF parseHex(s).ok THEN Res(parseHex(s).val, NoError, t)
    ELSE Res(0, "malformedRequest", t)

\* Faulty variant: the index branch given a specific expected type.
ClassifyIndex_ExpectsAccountRoot(v) == HexOrMalformed(asString(v), "ltACCOUNT_ROOT")

ClassifyIndex(v) == HexOrMalformed(asString(v), ltANY)

ClassifyAccountRoot(v) ==
    LET account == parseBase58(asString(v))
    IN  IF ~account.ok \/ account.id = 0
        THEN Res(0, "malformedAddress", "ltACCOUNT_ROOT")
        ELSE Res(keylet_account(account.id), NoError, "ltACCOUNT_ROOT")

ClassifyCheck(v) == HexOrMalformed(asString(v), "ltCHECK")

ClassifyDepositPreauth(v) ==
    IF ~isObject(v)
    THEN IF ~isString(v) \/ ~parseHex(asString(v)).ok
         THEN Res(0, "malformedRequest", "ltDEPOSIT_PREAUTH")
         ELSE Res(parseHex(asString(v)).val, NoError, "ltDEPOSIT_PREAUTH")
    ELSE IF \/ ~isMember(v, "owner")
            \/ ~isString(v.m["owner"])
            \/ ~isMember(v, "authorized")
            \/ ~isString(v.m["authorized"])
    THEN Res(0, "malformedRequest", "ltDEPOSIT_PREAUTH")
    ELSE LET owner == parseBase58(asString(v.m["owner"]))
             authorized == parseBase58(asString(v.m["authorized"]))
         IN  IF ~owner.ok THEN Res(0, "malformedOwner", "ltDEPOSIT_PREAUTH")
             ELSE IF ~authorized.ok THEN Res(0, "malformedAuthorized", "ltDEPOSIT_PREAUTH")
             ELSE Res(keylet_depositPreauth(owner.id, authorized.id), NoError,
                      "ltDEPOSIT_PREAUTH")

\* Faulty variant: dir_root wins when owner is given too.
ClassifyDirectory_BothUsesDirRoot(v) ==
    IF isNull(v) THEN Res(0, "malformedRequest", "ltDIR_NODE")
    ELSE IF ~isObject(v) THEN HexOrMalformed(asString(v), "ltDIR_NODE")
    ELSE IF isMember(v, "sub_index") /\ ~isIntegral(v.m["sub_index"])
    THEN Res(0, "malformedRequest", "ltDIR_NODE")
    ELSE LET uSubIndex == IF isMember(v, "sub_index") THEN asUInt(v.m["sub_index"]) ELSE 0
         IN  IF isMember(v, "dir_root")
             THEN LET uDirRoot == parseHex(asString(v.m["dir_root"]))
                  IN  IF ~uDirRoot.ok
                      THEN Res(0, "malformedRequest", "ltDIR_NODE")
                      ELSE Res(keylet_page(uDirRoot.val, uSubIndex), NoError, "ltDIR_NODE")
             ELSE IF isMember(v, "owner")
             THEN LET ownerID == parseBase58(asString(v.m["owner"]))
                  IN  IF ~ownerID.ok THEN Res(0, "malformedAddress", "ltDIR_NODE")
                      ELSE Res(keylet_page(keylet_ownerDir(ownerID.id), uSubIndex),
                               NoError, "ltDIR_NODE")
             ELSE Res(0, "malformedRequest", "ltDIR_NODE")

ClassifyDirectory(v) ==
    IF isNull(v) THEN Res(0, "malformedRequest", "ltDIR_NODE")
    ELSE IF ~isObject(v) THEN HexOrMalformed(asString(v), "ltDIR_NODE")
    ELSE IF isMember(v, "sub_index") /\ ~isIntegral(v.m["sub_index"])
    THEN Res(0, "malformedRequest", "ltDIR_NODE")
    ELSE LET uSubIndex == IF isMember(v, "sub_index") THEN asUInt(v.m["sub_index"]) ELSE 0
         IN  IF isMember(v, "dir_root")
             THEN LET uDirRoot == parseHex(asString(v.m["dir_root"]))
                  IN  IF isMember(v, "owner")
                      THEN Res(0, "malformedRequest", "ltDIR_NODE")
                      ELSE IF ~uDirRoot.ok
                      THEN Res(0, "malformedRequest", "ltDIR_NODE")
                      ELSE Res(keylet_page(uDirRoot.val, uSubIndex), NoError, "ltDIR_NODE")
             ELSE IF isMember(v, "owner")
             THEN LET ownerID == parseBase58(asString(v.m["owner"]))
                  IN  IF ~ownerID.ok THEN Res(0, "malformedAddress", "ltDIR_NODE")
                      ELSE Res(keylet_page(keylet_ownerDir(ownerID.id), uSubIndex),
                               NoError, "ltDIR_NODE")
             ELSE Res(0, "malformedRequest", "ltDIR_NODE")

ClassifyEscrow(v) ==
    IF ~isObject(v) THEN HexOrMalformed(asString(v), "ltESCROW")
    ELSE IF ~isMember(v, "owner") \/ ~isMember(v, "seq") \/ ~isIntegral(v.m["seq"])
    THEN Res(0, "malformedRequest", "ltESCROW")
    ELSE LET id == parseBase58(asString(v.m["owner"]))
         IN  IF ~id.ok THEN Res(0, "malformedOwner", "ltESCROW")
             ELSE Res(keylet_escrow(id.id, asUInt(v.m["seq"])), NoError, "ltESCROW")

\* The key derivation of line 232 runs after the parse whether or not the
\* parse failed; an object value leaves every local untouched.
ClassifyEmittedTxn(v) ==
    IF ~isObject(v)
    THEN LET parsed == HexOrMalformed(asString(v), "ltEMITTED_TXN")
         IN  Res(keylet_emittedTxn(parsed.uNodeIndex), parsed.error, "ltEMITTED_TXN")
    ELSE Res(0, NoError, "ltEMITTED_TXN")

\* Line 257 dereferences the optional strUnHex returned without testing it.
\* When the string is not hex the optional is empty and the dereference is
\* undefined: ub is what the build makes of it, an abort or some bytes.
ClassifyImportVlseq(v, ub) ==
    IF ~isObject(v) THEN HexOrMalformed(asString(v), "ltIMPORT_VLSEQ")
    ELSE IF ~isMember(v, "public_key") \/ ~isString(v.m["public_key"])
    THEN Res(0, "malformedRequest", "ltIMPORT_VLSEQ")
    ELSE LET pkHex == strUnHex(asString(v.m["public_key"]))
         IN  IF ~pkHex.ok /\ ub.crash THEN Crash("ltIMPORT_VLSEQ")
             ELSE LET pkSlice == IF pkHex.ok THEN pkHex.bytes ELSE ub.bytes
                  IN  IF ~publicKeyType(pkSlice)
                      THEN Res(0, "malformedRequest", "ltIMPORT_VLSEQ")
                      ELSE Res(keylet_import_vlseq(pkSlice), NoError, "ltIMPORT_VLSEQ")

ClassifyOffer(v) ==
    IF ~isObject(v) THEN HexOrMalformed(asString(v), "ltOFFER")
    ELSE IF ~isMember(v, "account") \/ ~isMember(v, "seq") \/ ~isIntegral(v.m["seq"])
    THEN Res(0, "malformedRequest", "ltOFFER")
    ELSE LET id == parseBase58(asString(v.m["account"]))
         IN  IF ~id.ok THEN Res(0, "malformedAddress", "ltOFFER")
             ELSE Res(keylet_offer(id.id, asUInt(v.m["seq"])), NoError, "ltOFFER")

ClassifyPaymentChannel(v) == HexOrMalformed(asString(v), "ltPAYCHAN")

ClassifyUriToken(v) ==
    IF ~isObject(v) THEN HexOrMalformed(asString(v), "ltURI_TOKEN")
    ELSE IF ~isMember(v, "account") \/ ~isMember(v, "uri")
    THEN Res(0, "malformedRequest", "ltURI_TOKEN")
    ELSE LET id == parseBase58(asString(v.m["account"]))
             raw == asString(v.m["uri"])
         IN  IF ~id.ok THEN Res(0, "malformedAddress", "ltURI_TOKEN")
             ELSE Res(keylet_uritoken(id.id, raw), NoError, "ltURI_TOKEN")

ClassifyRippleState(v) ==
    IF \/ ~isObject(v)
       \/ ~isMember(v, "currency")
       \/ ~isMember(v, "accounts")
       \/ ~isArray(v.m["accounts"])
       \/ 2 # Len(v.m["accounts"].a)
       \/ ~isString(v.m["accounts"].a[1])
       \/ ~isString(v.m["accounts"].a[2])
       \/ asString(v.m["accounts"].a[1]) = asString(v.m["accounts"].a[2])
    THEN Res(0, "malformedRequest", "ltRIPPLE_STATE")
    ELSE LET id1 == parseBase58(asString(v.m["accounts"].a[1]))
             id2 == parseBase58(asString(v.m["accounts"].a[2]))
             uCurrency == to_currency(asString(v.m["currency"]))
         IN  IF ~id1.ok \/ ~id2.ok THEN Res(0, "malformedAddress", "ltRIPPLE_STATE")
             ELSE IF ~uCurrency.ok THEN Res(0, "malformedCurrency", "ltRIPPLE_STATE")
             ELSE Res(keylet_line(id1.id, id2.id, uCurrency.cur), NoError, "ltRIPPLE_STATE")

ClassifyTicket(v) ==
    IF ~isObject(v) THEN HexOrMalformed(asString(v), "ltTICKET")
    ELSE IF \/ ~isMember(v, "account")
            \/ ~isMember(v, "ticket_seq")
            \/ ~isIntegral(v.m["ticket_seq"])
    THEN Res(0, "malformedRequest", "ltTICKET")
    ELSE LET id == parseBase58(asString(v.m["account"]))
         IN  IF ~id.ok THEN Res(0, "malformedAddress", "ltTICKET")
             ELSE Res(getTicketIndex(id.id, asUInt(v.m["ticket_seq"])), NoError, "ltTICKET")

ClassifyHook(v) ==
    IF ~isObject(v) THEN HexOrMalformed(asString(v), "ltHOOK")
    ELSE IF ~isMember(v, "account") THEN Res(0, "malformedRequest", "ltHOOK")
    ELSE LET id == parseBase58(asString(v.m["account"]))
         IN  IF ~id.ok THEN Res(0, "malformedAddress", "ltHOOK")
             ELSE Res(keylet_hook(id.id), NoError, "ltHOOK")

ClassifyHookDefinition(v) ==
    IF isObject(v) \/ ~parseHex(asString(v)).ok
    THEN Res(0, "malformedRequest", "ltHOOK_DEFINITION")
    ELSE Res(keylet_hookDefinition(parseHex(asString(v)).val), NoError, "ltHOOK_DEFINITION")

ClassifyHookState(v) ==
    IF \/ ~isObject(v)
       \/ ~isMember(v, "account")
       \/ ~isMember(v, "key")
       \/ ~isMember(v, "namespace_id")
       \/ ~isString(v.m["account"])
       \/ ~isString(v.m["key"])
       \/ ~isString(v.m["namespace_id"])
    THEN Res(0, "malformedRequest", "ltHOOK_STATE")
    ELSE LET account == parseBase58(asString(v.m["account"]))
             uNodeKey == parseHex(asString(v.m["key"]))
             uNameSpace == parseHex(asString(v.m["namespace_id"]))
         IN  IF ~account.ok THEN Res(0, "malformedAddress", "ltHOOK_STATE")
             ELSE IF ~uNodeKey.ok THEN Res(0, "malformedRequest", "ltHOOK_STATE")
             ELSE IF ~uNameSpace.ok THEN Res(0, "malformedRequest", "ltHOOK_STATE")
             ELSE Res(keylet_hookState(account.id, uNodeKey.val, uNameSpace.val),
                      NoError, "ltHOOK_STATE")

\* Faulty variant: the nft_page branch left at the default expected type.
ClassifyNftPage_ExpectsAny(v) ==
    IF isString(v) THEN HexOrMalformed(asString(v), ltANY)
    ELSE Res(0, "malformedRequest", ltANY)

ClassifyNftPage(v) ==
    IF isString(v) THEN HexOrMalformed(asString(v), "ltNFTOKEN_PAGE")
    ELSE Res(0, "malformedRequest", "ltNFTOKEN_PAGE")

\* Faulty variant: the size test of the legacy form dropped.
ClassifyLegacy_AnyFirstString(p) ==
    IF /\ has(p, "params")
       /\ isArray(p["params"])
       /\ Len(p["params"].a) >= 1
       /\ isString(p["params"].a[1])
    THEN HexOrMalformed(asString(p["params"].a[1]), ltANY)
    ELSE Res(0, "unknownOption", ltANY)

\* The final else: the legacy positional form, params = [ <hex> ].
ClassifyLegacy(p) ==
    IF /\ has(p, "params")
       /\ isArray(p["params"])
       /\ Len(p["params"].a) = 1
       /\ isString(p["params"].a[1])
    THEN HexOrMalformed(asString(p["params"].a[1]), ltANY)
    ELSE Res(0, "unknownOption", ltANY)

\* ------------------------------------------------------------ the request
Triggers ==
    <<"index", "account_root", "check", "deposit_preauth", "directory",
      "escrow", "emitted_txn", "import_vlseq", "offer", "payment_channel",
      "uri_token", "ripple_state", "ticket", "hook", "hook_definition",
      "hook_state", "nft_page">>
TriggerSet == {Triggers[i] : i \in 1..Len(Triggers)}

\* The if / else-if chain of lines 53-524.
Classify(p, ub) ==
    IF has(p, "index") THEN ClassifyIndex(p["index"])
    ELSE IF has(p, "account_root") THEN ClassifyAccountRoot(p["account_root"])
    ELSE IF has(p, "check") THEN ClassifyCheck(p["check"])
    ELSE IF has(p, "deposit_preauth") THEN ClassifyDepositPreauth(p["deposit_preauth"])
    ELSE IF has(p, "directory") THEN ClassifyDirectory(p["directory"])
    ELSE IF has(p, "escrow") THEN ClassifyEscrow(p["escrow"])
    ELSE IF has(p, "emitted_txn") THEN ClassifyEmittedTxn(p["emitted_txn"])
    ELSE IF has(p, "import_vlseq") THEN ClassifyImportVlseq(p["import_vlseq"], ub)
    ELSE IF has(p, "offer") THEN ClassifyOffer(p["offer"])
    ELSE IF has(p, "payment_channel") THEN ClassifyPaymentChannel(p["payment_channel"])
    ELSE IF has(p, "uri_token") THEN ClassifyUriToken(p["uri_token"])
    ELSE IF has(p, "ripple_state") THEN ClassifyRippleState(p["ripple_state"])
    ELSE IF has(p, "ticket") THEN ClassifyTicket(p["ticket"])
    ELSE IF has(p, "hook") THEN ClassifyHook(p["hook"])
    ELSE IF has(p, "hook_definition") THEN ClassifyHookDefinition(p["hook_definition"])
    ELSE IF has(p, "hook_state") THEN ClassifyHookState(p["hook_state"])
    ELSE IF has(p, "nft_page") THEN ClassifyNftPage(p["nft_page"])
    ELSE ClassifyLegacy(p)

\* ------------------------------------------------- lookup and the response
\* jvResult, restricted to the members this handler and lookupLedger write:
\* "" / <<>> / NoNode stand for "not a member".
JvResult(e, ledgerInfo) ==
    [error |-> e, index |-> <<>>, node |-> NoNode, node_binary |-> <<>>,
     ledger |-> ledgerInfo]

\* RPC::lookupLedger / RPC::ledgerFromRequest: the selection either yields
\* the snapshot or fails with a cause.
LedgerOK == "ok"
LedgerFailures == {"rpcINVALID_PARAMS", "rpcLGR_NOT_FOUND", "rpcNO_NETWORK"}
LedgerSelections == {LedgerOK} \cup LedgerFailures
lookupLedger(sel) ==
    IF sel = LedgerOK THEN JvResult(NoError, TRUE)
    ELSE JvResult(CASE sel = "rpcINVALID_PARAMS" -> "invalidParams"
                    [] sel = "rpcLGR_NOT_FOUND" -> "lgrNotFound"
                    [] OTHER -> "noNetwork", FALSE)

bNodeBinaryOf(p) == IF has(p, "binary") THEN asBool(p["binary"]) ELSE FALSE

\* Faulty variant: the type check skipped when the binary form is asked for.
Render_BinarySkipsTypeCheck(jv, uNodeIndex, expectedType, sleNode, bNodeBinary) ==
    IF sleNode = NoSLE
    THEN [jv EXCEPT !.error = "entryNotFound"]
    ELSE IF bNodeBinary
    THEN [jv EXCEPT !.node_binary = strHex(Serialize(sleNode)),
                    !.index = to_string(uNodeIndex)]
    ELSE IF expectedType # ltANY /\ expectedType # sleNode.type
    THEN [jv EXCEPT !.error = "unexpectedLedgerType"]
    ELSE [jv EXCEPT !.node = getJson(sleNode),
                    !.index = to_string(uNodeIndex)]

\* Faulty variant: an entry of the wrong type reported as missing.
Render_MismatchAsNotFound(jv, uNodeIndex, expectedType, sleNode, bNodeBinary) ==
    IF sleNode = NoSLE \/ (expectedType # ltANY /\ expectedType # sleNode.type)
    THEN [jv EXCEPT !.error = "entryNotFound"]
    ELSE IF bNodeBinary
    THEN [jv EXCEPT !.node_binary = strHex(Serialize(sleNode)),
                    !.index = to_string(uNodeIndex)]
    ELSE [jv EXCEPT !.node = getJson(sleNode),
                    !.index = to_string(uNodeIndex)]

\* Lines 532-555: what is written to jvResult once the entry has been read.
Render(jv, uNodeIndex, expectedType, sleNode, bNodeBinary) ==
    IF sleNode = NoSLE
    THEN [jv EXCEPT !.error = "entryNotFound"]
    ELSE IF expectedType # ltANY /\ expectedType # sleNode.type
    THEN [jv EXCEPT !.error = "unexpectedLedgerType"]
    ELSE IF bNodeBinary
    THEN [jv EXCEPT !.node_binary = strHex(Serialize(sleNode)),
                    !.index = to_string(uNodeIndex)]
    ELSE [jv EXCEPT !.node = getJson(sleNode),
                    !.index = to_string(uNodeIndex)]

\* Faulty variant: the read done without the zero-key guard.
Resolve_NoZeroGuard(jv, c, p, snap) ==
    [jv |-> Render(jv, c.uNodeIndex, c.expectedType,
                   read(snap, c.uNodeIndex), bNodeBinaryOf(p)),
     reads |-> <<c.uNodeIndex>>]

\* Lines 526-558: the zero-key guard around the read.
Resolve(jv, c, p, snap) ==
    IF c.uNodeIndex # 0
    THEN [jv |-> Render(jv, c.uNodeIndex, c.expectedType,
                        read(snap, c.uNodeIndex), bNodeBinaryOf(p)),
          reads |-> <<c.uNodeIndex>>]
    ELSE [jv |-> jv, reads |-> <<>>]

NotClassified == [uNodeIndex |-> 0, error |-> NoError, expectedType |-> ltANY,
                  crashed |-> FALSE]

\* doLedgerEntry as a function of its inputs: c are the locals after
\* classification, jv the value returned, reads the keys read from the
\* snapshot.  An aborted call returns nothing.
LedgerEntry(sel, p, snap, ub) ==
    IF sel # LedgerOK
    THEN [c |-> NotClassified, jv |-> lookupLedger(sel), reads |-> <<>>,
          classified |-> FALSE]
    ELSE LET c == Classify(p, ub)
             jv0 == IF c.error = NoError THEN lookupLedger(sel)
                    ELSE [lookupLedger(sel) EXCEPT !.error = c.error]
         IN  IF c.crashed
             THEN [c |-> c, jv |-> JvResult(NoError, FALSE), reads |-> <<>>,
                   classified |-> TRUE]
             ELSE [c |-> c, jv |-> Resolve(jv0, c, p, snap).jv,
                   reads |-> Resolve(jv0, c, p, snap).reads, classified |-> TRUE]

\* gRPC statuses and response.
StatusOK == "OK"
INVALID_ARGUMENT == "INVALID_ARGUMENT"
NOT_FOUND == "NOT_FOUND"
EmptyResponse == [has_ledger_object |-> FALSE, key |-> <<>>, data |-> <<>>,
                  ledger |-> ""]

\* Faulty variant: the key examined before the ledger selection is.
LedgerEntryGrpc_KeyCheckedFirst(sel, request, snap) ==
    LET key == fromVoidChecked(request.key)
    IN  IF ~key.ok
        THEN [response |-> EmptyResponse, status |-> INVALID_ARGUMENT, reads |-> <<>>]
        ELSE IF sel # LedgerOK
        THEN [response |-> EmptyResponse,
              status |-> IF sel = "rpcINVALID_PARAMS" THEN INVALID_ARGUMENT ELSE NOT_FOUND,
              reads |-> <<>>]
        ELSE LET sleNode == read(snap, key.val)
             IN  IF sleNode = NoSLE
                 THEN [response |-> EmptyResponse, status |-> NOT_FOUND,
                       reads |-> <<key.val>>]
                 ELSE [response |-> [has_ledger_object |-> TRUE,
                                     key |-> request.key,
                                     data |-> Serialize(sleNode),
                                     ledger |-> request.ledger],
                       status |-> StatusOK,
                       reads |-> <<key.val>>]

\* doLedgerEntryGrpc, lines 561-612.
LedgerEntryGrpc(sel, request, snap) ==
    IF sel # LedgerOK
    THEN [response |-> EmptyResponse,
          status |-> IF sel = "rpcINVALID_PARAMS" THEN INVALID_ARGUMENT ELSE NOT_FOUND,
          reads |-> <<>>]
    ELSE LET key == fromVoidChecked(request.key)
         IN  IF ~key.ok
             THEN [response |-> EmptyResponse, status |-> INVALID_ARGUMENT, reads |-> <<>>]
             ELSE LET sleNode == read(snap, key.val)
                  IN  IF sleNode = NoSLE
                      THEN [response |-> EmptyResponse, status |-> NOT_FOUND,
                            reads |-> <<key.val>>]
                      ELSE [response |-> [has_ledger_object |-> TRUE,
                                          key |-> request.key,
                                          data |-> Serialize(sleNode),
                                          ledger |-> request.ledger],
                            status |-> StatusOK,
                            reads |-> <<key.val>>]

\* ------------------------------------------------------------- the inputs
RECURSIVE ToHexLower(_, _)
ToHexLower(n, len) ==
    IF len = 0 THEN <<>>
    ELSE Append(ToHexLower(n \div 16, len - 1), HexLower[(n % 16) + 1])

ZeroHex == to_string(0)
GoodHex == {ZeroHex, to_string(2), to_string(MaxKey), ToHexLower(MaxKey, KeyHexLen)}
ShortHex == SubSeq(to_string(2), 1, KeyHexLen - 1)
LongHex == to_string(2) \o <<"0">>
NonHex == <<"g">> \o SubSeq(to_string(2), 2, KeyHexLen)
BadHex == {ShortHex, LongHex, NonHex}

rA == <<"r","A">>
rB == <<"r","B">>
rZero == <<"r","r">>
rBad == <<"r","?">>

ScalarValues == {StrValue(h) : h \in GoodHex \cup BadHex} \cup {NullValue, IntValue(5)}
AddrLeaves == {AbsentLeaf, StrLeaf(rA), StrLeaf(rBad)}
SeqLeaves == {AbsentLeaf, IntLeaf(1), StrLeaf(<<"1">>)}
HexLeaves == {AbsentLeaf, StrLeaf(to_string(2)), StrLeaf(NonHex)}

PkBytes(prefix) == <<prefix>> \o ToBytes(1, KeyBytes)
PkLeaves ==
    {AbsentLeaf, IntLeaf(1),
     StrLeaf(strHex(PkBytes(237))), StrLeaf(strHex(PkBytes(2))),
     StrLeaf(strHex(PkBytes(255))), StrLeaf(strHex(<<237>>)),
     StrLeaf(NonHex), StrLeaf(<<"E">>)}

AccountsLeaves ==
    {AbsentLeaf, StrLeaf(rA), ArrLeaf(<<StrAtom(rA)>>),
     ArrLeaf(<<StrAtom(rA), StrAtom(rB)>>), ArrLeaf(<<StrAtom(rB), StrAtom(rA)>>),
     ArrLeaf(<<StrAtom(rA), StrAtom(rA)>>), ArrLeaf(<<StrAtom(rBad), StrAtom(rBad)>>),
     ArrLeaf(<<StrAtom(rA), StrAtom(rBad)>>), ArrLeaf(<<StrAtom(rA), IntAtom(1)>>)}
CurrencyLeaves == {AbsentLeaf, StrLeaf(<<"U","S","D">>), StrLeaf(<<"u">>)}

ValuesOf(trigger) ==
    CASE trigger \in {"index", "check", "payment_channel"} -> ScalarValues
      [] trigger = "account_root" ->
            {StrValue(rA), StrValue(rB), StrValue(rZero), StrValue(rBad), NullValue}
      [] trigger = "deposit_preauth" ->
            ScalarValues \cup
            {Obj2("owner", o, "authorized", a) :
                o \in AddrLeaves \cup {IntLeaf(1)},
                a \in {AbsentLeaf, StrLeaf(rB), StrLeaf(rBad), IntLeaf(1)}}
      [] trigger = "directory" ->
            ScalarValues \cup
            {Obj3("sub_index", i, "dir_root", d, "owner", o) :
                i \in SeqLeaves, d \in HexLeaves \cup {StrLeaf(ZeroHex)}, o \in AddrLeaves}
      [] trigger = "escrow" ->
            ScalarValues \cup
            {Obj2("owner", o, "seq", q) : o \in AddrLeaves, q \in SeqLeaves}
      [] trigger = "emitted_txn" ->
            ScalarValues \cup {EmptyObj, Obj1("account", StrLeaf(rA))}
      [] trigger = "import_vlseq" ->
            ScalarValues \cup {Obj1("public_key", k) : k \in PkLeaves}
      [] trigger = "offer" ->
            ScalarValues \cup
            {Obj2("account", o, "seq", q) : o \in AddrLeaves, q \in SeqLeaves}
      [] trigger = "uri_token" ->
            ScalarValues \cup
            {Obj2("account", o, "uri", u) :
                o \in AddrLeaves, u \in {AbsentLeaf, StrLeaf(<<"x">>)}}
      [] trigger = "ripple_state" ->
            {NullValue, StrValue(to_string(2))} \cup
            {Obj2("currency", c, "accounts", a) :
                c \in CurrencyLeaves, a \in AccountsLeaves}
      [] trigger = "ticket" ->
            ScalarValues \cup
            {Obj2("account", o, "ticket_seq", q) : o \in AddrLeaves, q \in SeqLeaves}
      [] trigger = "hook" ->
            ScalarValues \cup {Obj1("account", o) : o \in AddrLeaves}
      [] trigger = "hook_definition" -> ScalarValues \cup {EmptyObj}
      [] trigger = "hook_state" ->
            {NullValue, StrValue(to_string(2))} \cup
            {Obj3("account", o, "key", k, "namespace_id", n) :
                o \in AddrLeaves \cup {IntLeaf(1)}, k \in HexLeaves, n \in HexLeaves}
      [] trigger = "nft_page" -> ScalarValues \cup {EmptyObj}

ParamsValues ==
    {ArrValue(<<StrAtom(h)>>) : h \in GoodHex \cup BadHex} \cup
    {ArrValue(<<>>), ArrValue(<<StrAtom(to_string(2)), StrAtom(to_string(2))>>),
     ArrValue(<<IntAtom(1)>>), StrValue(to_string(2)), NullValue}

NoParams == <<>>
With(p, f, v) ==
    IF v = AbsentValue THEN p
    ELSE [g \in DOMAIN p \cup {f} |-> IF g = f THEN v ELSE p[g]]

BaseRequests ==
    UNION {{With(NoParams, t, v) : v \in ValuesOf(t)} : t \in TriggerSet}
    \cup {With(NoParams, "params", v) : v \in ParamsValues}
    \cup {NoParams}
    \* two fields at once: the chain takes the first
    \cup {With(With(NoParams, "index", StrValue(to_string(2))), "escrow", EmptyObj),
          With(With(NoParams, "account_root", StrValue(rBad)), "params",
               ArrValue(<<StrAtom(to_string(2))>>)),
          With(With(NoParams, "nft_page", EmptyObj), "hook", StrValue(to_string(2)))}

BinaryFlags == {AbsentValue, BoolValue(TRUE), BoolValue(FALSE)}
Requests == {With(p, "binary", b) : p \in BaseRequests, b \in BinaryFlags}

\* What the build makes of the undefined dereference of line 257.
NoUB == [crash |-> FALSE, bytes |-> <<>>]
UBOutcomes ==
    {[crash |-> TRUE, bytes |-> <<>>]} \cup
    {[crash |-> FALSE, bytes |-> b] : b \in {<<>>, PkBytes(237), PkBytes(255)}}
HitsUB(p) == Classify(p, [crash |-> TRUE, bytes |-> <<>>]).crashed
UBChoices(p) == IF HitsUB(p) THEN UBOutcomes ELSE {NoUB}

\* Snapshots: the empty ledger and every ledger holding one entry.  A call
\* reads at most one key, so one entry decides every outcome of a read.  No
\* entry is stored at the zero key.
StoredKeys == (1..HashBuckets) \cup {MaxKey}
Snapshots == {{}} \cup {{SLE(k, t)} : k \in StoredKeys, t \in StoredTypes}

GrpcKeys ==
    {ToBytes(k, KeyBytes) : k \in {0, 2, HashBuckets + 1, MaxKey}}
    \cup {<<>>, ToBytes(2, KeyBytes + 1), ToBytes(2, KeyBytes - 1)}
GrpcRequests == {[key |-> k, ledger |-> "validated"] : k \in GrpcKeys}

\* ------------------------------------------------------- the state machine
VARIABLES
    snapshot,       \* the ledger the selection yields (lpLedger)
    pc,             \* "idle", or which handler has returned
    ledgerSel,      \* outcome of lookupLedger / ledgerFromRequest
    params,         \* context.params of the JSON call
    locals,         \* uNodeIndex, error, expectedType after classification
    jvResult,       \* value returned by doLedgerEntry
    reads,          \* keys read from the snapshot during the call
    request,        \* context.params of the gRPC call
    response,       \* GetLedgerEntryResponse returned
    status          \* grpc::Status returned

vars == <<snapshot, pc, ledgerSel, params, locals, jvResult, reads, request,
          response, status>>

NoRequest == [key |-> <<>>, ledger |-> ""]

Init ==
    /\ snapshot \in Snapshots
    /\ pc = "idle"
    /\ ledgerSel = LedgerOK
    /\ params = NoParams
    /\ locals = NotClassified
    /\ jvResult = JvResult(NoError, FALSE)
    /\ reads = <<>>
    /\ request = NoRequest
    /\ response = EmptyResponse
    /\ status = StatusOK

\* One call of doLedgerEntry, start to return.
DoLedgerEntry ==
    /\ pc = "idle"
    /\ \E sel \in LedgerSelections, p \in Requests :
         \E ub \in UBChoices(p) :
           LET r == LedgerEntry(sel, p, snapshot, ub)
           IN  /\ sel # LedgerOK => p \in BaseRequests /\ has(p, "index")
               /\ ledgerSel' = sel
               /\ params' = p
               /\ locals' = r.c
               /\ jvResult' = r.jv
               /\ reads' = r.reads
               /\ pc' = IF r.c.crashed THEN "aborted" ELSE "json"
    /\ UNCHANGED <<snapshot, request, response, status>>

\* One call of doLedgerEntryGrpc, start to return.
DoLedgerEntryGrpc ==
    /\ pc = "idle"
    /\ \E sel \in LedgerSelections, q \in GrpcRequests :
         LET r == LedgerEntryGrpc(sel, q, snapshot)
         IN  /\ ledgerSel' = sel
             /\ request' = q
             /\ response' = r.response
             /\ status' = r.status
             /\ reads' = r.reads
             /\ pc' = "grpc"
    /\ UNCHANGED <<snapshot, params, locals, jvResult>>

\* The caller takes the result; nothing of the call survives it.
Return ==
    /\ pc # "idle"
    /\ pc' = "idle"
    /\ ledgerSel' = LedgerOK
    /\ params' = NoParams
    /\ locals' = NotClassified
    /\ jvResult' = JvResult(NoError, FALSE)
    /\ reads' = <<>>
    /\ request' = NoRequest
    /\ response' = EmptyResponse
    /\ status' = StatusOK
    /\ UNCHANGED snapshot

Next == DoLedgerEntry \/ DoLedgerEntryGrpc \/ Return

Spec == Init /\ [][Next]_vars

\* ------------------------------------------------------------- properties
JsonDone == pc = "json" /\ ledgerSel = LedgerOK
HasError == jvResult.error # NoError
HasIndex == jvResult.index # <<>>
HasNode == jvResult.node # NoNode
HasNodeBinary == jvResult.node_binary # <<>>

\* The field whose branch of the chain runs: the first trigger present.
Selected(p) ==
    IF \E i \in 1..Len(Triggers) : has(p, Triggers[i])
    THEN Triggers[CHOOSE i \in 1..Len(Triggers) :
                    has(p, Triggers[i]) /\ \A j \in 1..(i - 1) : ~has(p, Triggers[j])]
    ELSE "none"

\* C1: once validation has set an error, the snapshot is never read and the
\* error returned is the one validation set.
C1_RejectedNeverReads ==
    (JsonDone /\ locals.error # NoError)
        => (reads = <<>> /\ jvResult.error = locals.error)

\* C2: when ledger selection succeeded the response is exactly one of: an
\* error only; index with node; index with node_binary.
C2_ExactlyOneForm ==
    JsonDone =>
        \/ HasError /\ ~HasIndex /\ ~HasNode /\ ~HasNodeBinary
        \/ ~HasError /\ HasIndex /\ HasNode /\ ~HasNodeBinary
        \/ ~HasError /\ HasIndex /\ ~HasNode /\ HasNodeBinary

\* C3: a shape with a specific expected type whose nonzero key holds an
\* entry of another type answers unexpectedLedgerType, without index, node
\* or node_binary, whatever the binary flag.
C3_TypeMismatchHidesObject ==
    (/\ JsonDone
     /\ locals.expectedType # ltANY
     /\ locals.uNodeIndex # 0
     /\ \E o \in snapshot : o.key = locals.uNodeIndex /\ o.type # locals.expectedType)
        => /\ jvResult.error = "unexpectedLedgerType"
           /\ ~HasIndex /\ ~HasNode /\ ~HasNodeBinary

C3_Witness ==
    /\ JsonDone
    /\ Selected(params) = "escrow"
    /\ isObject(params["escrow"])
    /\ bNodeBinaryOf(params)
    /\ \E o \in snapshot : o.key = locals.uNodeIndex /\ o.type = "ltRIPPLE_STATE"
    /\ jvResult.error = "unexpectedLedgerType"

\* The sub-fields from which a branch derives a key out of an object value:
\* each element is one sufficient set of members.  The scalar-only shapes
\* and emitted_txn derive no key from an object, so no object is complete.
RequiredAlternatives(trigger) ==
    CASE trigger = "deposit_preauth" -> {{"owner", "authorized"}}
      [] trigger = "directory" -> {{"dir_root"}, {"owner"}}
      [] trigger = "escrow" -> {{"owner", "seq"}}
      [] trigger = "import_vlseq" -> {{"public_key"}}
      [] trigger = "offer" -> {{"account", "seq"}}
      [] trigger = "uri_token" -> {{"account", "uri"}}
      [] trigger = "ripple_state" -> {{"currency", "accounts"}}
      [] trigger = "ticket" -> {{"account", "ticket_seq"}}
      [] trigger = "hook" -> {{"account"}}
      [] trigger = "hook_state" -> {{"account", "key", "namespace_id"}}
      [] OTHER -> {}

\* The selected trigger holds an object that omits a required sub-field.
OmitsRequired(p) ==
    /\ Selected(p) # "none"
    /\ isObject(p[Selected(p)])
    /\ \A alt \in RequiredAlternatives(Selected(p)) :
           \E f \in alt : ~isMember(p[Selected(p)], f)

\* C4: a request whose trigger field is present but lacks a required
\* sub-field ends with malformedRequest: no abort, and no response that has
\* no error while the key is zero.
C4_OmittedSubFieldIsMalformed ==
    (pc \in {"json", "aborted"} /\ ledgerSel = LedgerOK /\ OmitsRequired(params))
        => (pc = "json" /\ jvResult.error = "malformedRequest")

\* C5: when classification ends with the zero key nothing is read and the
\* response has no index, node or node_binary; its error is the one
\* validation set, if any.
C5_ZeroKeyNoLookup ==
    (JsonDone /\ locals.uNodeIndex = 0)
        => /\ reads = <<>>
           /\ ~HasIndex /\ ~HasNode /\ ~HasNodeBinary
           /\ jvResult.error = locals.error

C5_Witness ==
    /\ JsonDone
    /\ Selected(params) = "none"
    /\ has(params, "params")
    /\ params["params"] = ArrValue(<<StrAtom(ZeroHex)>>)
    /\ locals.uNodeIndex = 0
    /\ jvResult.error = NoError
    /\ snapshot # {}

\* The request {index: <hex>, binary: <flag of p>}.
ByIndex(hex, p) ==
    With(With(NoParams, "index", StrValue(hex)), "binary",
         IF has(p, "binary") THEN p["binary"] ELSE AbsentValue)

\* C6: a response {index: k, node | node_binary: o} round-trips: asking for
\* {index: k} with the same binary flag on the same snapshot returns the
\* same index and the identical object.
C6_IndexRoundTrip ==
    (JsonDone /\ HasIndex)
        => LET again == LedgerEntry(LedgerOK, ByIndex(jvResult.index, params),
                                    snapshot, NoUB).jv
           IN  /\ again.error = NoError
               /\ again.index = jvResult.index
               /\ again.node = jvResult.node
               /\ again.node_binary = jvResult.node_binary

C6_Witness ==
    /\ JsonDone
    /\ Selected(params) = "ripple_state"
    /\ HasIndex
    /\ HasNodeBinary
    /\ jvResult.index = to_string(locals.uNodeIndex)

\* C7: doLedgerEntryGrpc answers OK with a ledger_object payload exactly
\* when the ledger was selected, the key has the key's width and an entry
\* (of any type) is stored there; otherwise the payload is empty and the
\* status is INVALID_ARGUMENT (selection failed on invalid parameters, or
\* malformed key) or NOT_FOUND (selection failed otherwise, or nothing
\* stored), a failed selection being reported before the key is looked at.
C7_GrpcOutcome ==
    pc = "grpc" =>
        LET widthOK == Len(request.key) = KeyBytes
            stored == {o \in snapshot : widthOK /\ o.key = BytesValue(request.key)}
        IN  IF ledgerSel = LedgerOK /\ widthOK /\ stored # {}
            THEN /\ status = StatusOK
                 /\ response.has_ledger_object
                 /\ response.key = request.key
                 /\ response.ledger = request.ledger
                 /\ \E o \in stored : response.data = <<TypeCode(o.type), o.data>>
            ELSE /\ response = EmptyResponse
                 /\ status = IF ledgerSel # LedgerOK
                             THEN (IF ledgerSel = "rpcINVALID_PARAMS"
                                   THEN INVALID_ARGUMENT ELSE NOT_FOUND)
                             ELSE IF ~widthOK THEN INVALID_ARGUMENT
                             ELSE NOT_FOUND

C7_Witness ==
    /\ pc = "grpc"
    /\ status = StatusOK
    /\ response.has_ledger_object
    /\ \E o \in snapshot : o.type = "ltESCROW" /\ response.data = Serialize(o)

\* What doLedgerEntryGrpc answers for the key k on this snapshot.
GrpcFor(k) ==
    LedgerEntryGrpc(LedgerOK, [key |-> ToBytes(k, KeyBytes), ledger |-> "validated"],
                    snapshot)

\* C8 (as claimed): for every key the classifier resolves, the gRPC handler
\* given that key consults the same store entry: it returns a payload
\* exactly when the JSON lookup finds an entry, and NOT_FOUND exactly when
\* the JSON handler reports entryNotFound.
C8_Interchangeable ==
    (JsonDone /\ locals.error = NoError)
        => LET g == GrpcFor(locals.uNodeIndex)
           IN  /\ g.reads = reads
               /\ g.response.has_ledger_object
                    <=> (reads # <<>> /\ \E o \in snapshot : o.key = reads[1])
               /\ g.status = NOT_FOUND <=> jvResult.error = "entryNotFound"

\* C8 (amended): the same, for every nonzero key the classifier resolves.
C8_InterchangeableNonzero ==
    (JsonDone /\ locals.error = NoError /\ locals.uNodeIndex # 0)
        => LET g == GrpcFor(locals.uNodeIndex)
           IN  /\ g.reads = reads
               /\ g.response.has_ledger_object
                    <=> (reads # <<>> /\ \E o \in snapshot : o.key = reads[1])
               /\ g.status = NOT_FOUND <=> jvResult.error = "entryNotFound"

C8_Witness ==
    /\ JsonDone
    /\ locals.error = NoError
    /\ locals.uNodeIndex # 0
    /\ Selected(params) = "offer"
    /\ jvResult.error = "unexpectedLedgerType"
    /\ GrpcFor(locals.uNodeIndex).status = StatusOK

\* C9: a directory object with both dir_root and owner, or with neither, is
\* malformedRequest whatever dir_root, owner and sub_index hold; no key is
\* derived and nothing is read.
C9_DirectoryBothOrNeither ==
    (/\ JsonDone
     /\ Selected(params) = "directory"
     /\ isObject(params["directory"])
     /\ isMember(params["directory"], "dir_root")
            <=> isMember(params["directory"], "owner"))
        => /\ jvResult.error = "malformedRequest"
           /\ locals.uNodeIndex = 0
           /\ reads = <<>>
           /\ ~HasIndex /\ ~HasNode /\ ~HasNodeBinary

C9_Witness ==
    /\ JsonDone
    /\ Selected(params) = "directory"
    /\ isObject(params["directory"])
    /\ isMember(params["directory"], "dir_root")
    /\ isMember(params["directory"], "owner")
    /\ isMember(params["directory"], "sub_index")
    /\ parseHex(asString(params["directory"].m["dir_root"])).ok
    /\ parseBase58(asString(params["directory"].m["owner"])).ok
    /\ isIntegral(params["directory"].m["sub_index"])
    /\ jvResult.error = "malformedRequest"

\* params is an array of exactly one string.
OneStringArray(p) ==
    /\ has(p, "params")
    /\ isArray(p["params"])
    /\ Len(p["params"].a) = 1
    /\ isString(p["params"].a[1])

\* C10 (as claimed): with no trigger field present, whenever the legacy form
\* fails (params absent, not a one-string array, or a string that does not
\* hex-decode) the result is unknownOption.
C10_LegacyFailureIsUnknownOption ==
    (/\ JsonDone
     /\ Selected(params) = "none"
     /\ ~(OneStringArray(params) /\ parseHex(asString(params["params"].a[1])).ok))
        => jvResult.error = "unknownOption"

\* C10 (amended): with no trigger field present, a params that is absent or
\* not a one-string array gives unknownOption; a one-string array whose
\* string does not hex-decode gives malformedRequest; one that decodes gives
\* the decoded key with expected type any.
C10_LegacyFallback ==
    (JsonDone /\ Selected(params) = "none")
        => IF ~OneStringArray(params)
           THEN jvResult.error = "unknownOption" /\ locals.uNodeIndex = 0
           ELSE LET hex == parseHex(asString(params["params"].a[1]))
                IN  IF hex.ok
                    THEN /\ locals.error = NoError
                         /\ locals.uNodeIndex = hex.val
                         /\ locals.expectedType = ltANY
                    ELSE jvResult.error = "malformedRequest" /\ locals.uNodeIndex = 0

C10_Witness ==
    /\ JsonDone
    /\ Selected(params) = "none"
    /\ OneStringArray(params)
    /\ params["params"].a[1].s = NonHex
    /\ jvResult.error = "malformedRequest"

\* The ledger entry type each trigger field stands for.
DeclaredType(trigger) ==
    CASE trigger = "account_root" -> "ltACCOUNT_ROOT"
      [] trigger = "check" -> "ltCHECK"
      [] trigger = "deposit_preauth" -> "ltDEPOSIT_PREAUTH"
      [] trigger = "directory" -> "ltDIR_NODE"
      [] trigger = "escrow" -> "ltESCROW"
      [] trigger = "emitted_txn" -> "ltEMITTED_TXN"
      [] trigger = "import_vlseq" -> "ltIMPORT_VLSEQ"
      [] trigger = "offer" -> "ltOFFER"
      [] trigger = "payment_channel" -> "ltPAYCHAN"
      [] trigger = "uri_token" -> "ltURI_TOKEN"
      [] trigger = "ripple_state" -> "ltRIPPLE_STATE"
      [] trigger = "ticket" -> "ltTICKET"
      [] trigger = "hook" -> "ltHOOK"
      [] trigger = "hook_definition" -> "ltHOOK_DEFINITION"
      [] trigger = "hook_state" -> "ltHOOK_STATE"
      [] trigger = "nft_page" -> "ltNFTOKEN_PAGE"
      [] OTHER -> ltANY

\* The entry stored at the key the call resolved, if any.
StoredAtKey == {o \in snapshot : locals.uNodeIndex # 0 /\ o.key = locals.uNodeIndex}
Returned(o) ==
    /\ HasIndex
    /\ jvResult.index = to_string(o.key)
    /\ \/ jvResult.node = [LedgerEntryType |-> o.type, data |-> o.data]
       \/ jvResult.node_binary # <<>>

\* The expected-type policy with anyShapes as the shapes that accept any
\* type: those have expected type any and return whatever entry is stored at
\* the nonzero key; every other shape declares one type and returns the
\* entry only if it has that type.
ExpectedTypePolicy(anyShapes) ==
    JsonDone =>
        /\ locals.expectedType = ltANY <=> Selected(params) \in anyShapes
        /\ Selected(params) \in anyShapes
              => \A o \in StoredAtKey : Returned(o)
        /\ Selected(params) \notin anyShapes
              => /\ locals.expectedType = DeclaredType(Selected(params))
                 /\ (HasIndex \/ HasNode \/ HasNodeBinary)
                       => \E o \in StoredAtKey :
                             o.type = DeclaredType(Selected(params)) /\ Returned(o)

\* C11 (as claimed): the expected type is any exactly for the index, legacy
\* positional and nft_page shapes; for these an entry of any type stored at
\* the resolved nonzero key is returned, for every other shape only an entry
\* of the one type the shape declares.
C11_AnyForIndexLegacyNftPage == ExpectedTypePolicy({"index", "none", "nft_page"})

\* C11 (amended): the expected type is any exactly for the index and legacy
\* positional shapes; nft_page declares ltNFTOKEN_PAGE like every other
\* shape declares its type, and returns only an entry of that type.
C11_AnyForIndexLegacy == ExpectedTypePolicy({"index", "none"})

C11_Witness ==
    /\ JsonDone
    /\ Selected(params) = "nft_page"
    /\ locals.expectedType = "ltNFTOKEN_PAGE"
    /\ \E o \in StoredAtKey : o.type = "ltESCROW"
    /\ jvResult.error = "unexpectedLedgerType"
    /\ ~HasIndex

\* C12: for import_vlseq given an object with a string public_key, the key
\* is derived only when the string hex-decodes and the bytes are a public
\* key; otherwise the call ends with malformedRequest and the zero key, and
\* bytes that were never decoded are not used.
C12_ImportVlseqChecksBeforeDerivation ==
    (/\ pc \in {"json", "aborted"}
     /\ ledgerSel = LedgerOK
     /\ Selected(params) = "import_vlseq"
     /\ isObject(params["import_vlseq"])
     /\ isMember(params["import_vlseq"], "public_key")
     /\ isString(params["import_vlseq"].m["public_key"]))
        => LET pkHex == strUnHex(asString(params["import_vlseq"].m["public_key"]))
           IN  IF pkHex.ok /\ publicKeyType(pkHex.bytes)
               THEN /\ pc = "json"
                    /\ locals.error = NoError
                    /\ locals.uNodeIndex = keylet_import_vlseq(pkHex.bytes)
               ELSE /\ pc = "json"
                    /\ locals.error = "malformedRequest"
                    /\ locals.uNodeIndex = 0
====
